---- MODULE Spec2Model ----
(***************************************************************************)
(* Model of QtMWidgets::AbstractListView< T > (src/src/abstractlistview.hpp) *)
(* the anchor row / offset bookkeeping of a virtualised list view:          *)
(* firstVisibleRow and offset, the layout queries visualRect and rowAt,     *)
(* scrollTo, scrollContentsBy + normalizeOffset, and the slots connected    *)
(* to the model's change signals.                                           *)
(*                                                                          *)
(* Rows are laid out along the vertical axis of a viewport WinHeight       *)
(* pixels high.  Horizontally a row spans width - 2 * spacing pixels from  *)
(* x = spacing; under Spec the viewport is wide enough for that to be      *)
(* positive, under SpecNarrow it is zero or negative.                      *)
(***************************************************************************)
EXTENDS Integers, Sequences, FiniteSets, TLC

\* ------------------------------------------------------------------ bounds

\* Largest number of rows the model (ListModel) holds.
MaxRows == 3

\* Largest number of rows a model holds when it is attached or has been reset.
MaxNewRows == 2

\* Height of the viewport rectangle, d->viewport->rect().height().
WinHeight == 6

\* Row heights the model reports (heightForWidth is width dependent, the
\* width is fixed here).
Heights == {2, 3}

\* Values of the spacing property (0 is the documented default).
Spacings == {0, 1}

\* Width of the viewport rectangle, d->viewport->rect().width(), of a view
\* wide enough to show its rows.
Widths == {8}

\* Widths of a viewport no wider than twice the spacing.
NarrowWidths == {0, 2}

\* Realised pan deltas the scroll area reports to scrollContentsBy.
Deltas == {-7, -2, 0, 2, 7}

\* What heightForWidth may return for a row outside [0, rowCount()): the
\* view never checks the index, the result is whatever the model yields.
Undef == {0, 3}

Hints == {"EnsureVisible", "PositionAtTop", "PositionAtBottom", "PositionAtCenter"}

\* ------------------------------------------------------------------ state

VARIABLES
    attached,          \* d->model != 0
    heights,           \* the model's rows: heights[i + 1] is the height of row i
    spacing,           \* d->spacing
    width,             \* d->viewport->rect().width()
    firstVisibleRow,   \* d->firstVisibleRow
    offset,            \* d->offset
    last               \* the operation that produced this state and what it
                       \* asked of the scroll area and the viewport

vars == <<attached, heights, spacing, width, firstVisibleRow, offset, last>>

\* ------------------------------------------------------------------ helpers

qAbs(x) == IF x < 0 THEN -x ELSE x

qMax(a, b) == IF a > b THEN a ELSE b

qMin(a, b) == IF a < b THEN a ELSE b

\* C++ integer division truncates towards zero.
cdiv(a, b) == IF a >= 0 THEN a \div b ELSE -((-a) \div b)

\* ListModel< T >::rowCount()
rowCount(hs) == Len(hs)

\* ListModel< T >::heightForWidth( row, width ): g is what the call yields
\* for an index that is not a row of the model.
heightForWidth(hs, row, g) ==
    IF row >= 0 /\ row < Len(hs) THEN hs[row + 1] ELSE g

\* QRect(), the null rectangle.
NullRect == [null |-> TRUE, top |-> 0, bottom |-> -1]

\* const int width = r.width() - spacing * 2: the width of a row's rectangle
\* and the width heightForWidth is asked for.
rowWidth == width - 2 * spacing

\* r.intersected( QRect( x, y, rowWidth, height ) ) for the viewport
\* rectangle r = (0, 0, width, WinHeight) and x = spacing.  QRect keeps
\* x1 = x, x2 = x + w - 1, y1 = y, y2 = y + h - 1, takes the two ends of an
\* axis in swapped roles when x2 - x1 + 1 < 0, returns QRect() when either
\* rectangle is null or the two do not overlap on an axis, and is null when
\* x2 = x1 - 1 and y2 = y1 - 1.  The record keeps the vertical extent.
intersected(y, height) ==
    LET x1 == spacing
        x2 == spacing + rowWidth - 1
        l1 == 0
        r1 == width - 1
        l2 == IF x2 - x1 + 1 < 0 THEN x2 ELSE x1
        r2 == IF x2 - x1 + 1 < 0 THEN x1 ELSE x2
        t1 == y
        b1 == y + height - 1
        t2 == 0
        b2 == WinHeight - 1
    IN  IF (rowWidth = 0 /\ height = 0)
             \/ l1 > r2 \/ l2 > r1 \/ t1 > b2 \/ t2 > b1
        THEN NullRect
        ELSE [null |-> qMin(r1, r2) = qMax(l1, l2) - 1
                          /\ qMin(b1, b2) = qMax(t1, t2) - 1,
              top |-> qMax(t1, t2), bottom |-> qMin(b1, b2)]

\* QRect::contains( p ) for QRect( x, y, rowWidth, height ) and a point on
\* the left edge of the rows, p.x() = x = spacing: a rectangle of width 0
\* contains no point.
contains(y, height, py) == rowWidth # 0 /\ py >= y /\ py <= y + height - 1

\* ------------------------------------------------------------------ queries

RECURSIVE visualRectWalk(_, _, _, _, _, _, _)
\* The while( tmpRow < row ) loop of visualRect and its final intersection.
visualRectWalk(hs, sp, tmpRow, y, height, row, g) ==
    IF tmpRow < row
    THEN LET y2 == y + height + sp
         IN  IF y2 > WinHeight
             THEN NullRect
             ELSE visualRectWalk(hs, sp, tmpRow + 1, y2,
                                 heightForWidth(hs, tmpRow + 1, g), row, g)
    ELSE intersected(y, height)

\* AbstractListView::visualRect( row ) in the view state (fvr, off).
visualRect(hs, sp, fvr, off, row, g) ==
    IF row >= fvr
    THEN visualRectWalk(hs, sp, fvr, off, heightForWidth(hs, fvr, g), row, g)
    ELSE NullRect

RECURSIVE drawLoop(_, _, _, _)
\* The while loop of Viewport::drawListView: the rows handed to drawRow,
\* each with the y and height of its rowRect.
drawLoop(hs, sp, row, y) ==
    IF y < WinHeight /\ row < rowCount(hs)
    THEN LET height == hs[row + 1]
         IN  <<[row |-> row, y |-> y, height |-> height]>>
                 \o drawLoop(hs, sp, row + 1, y + height + sp)
    ELSE <<>>

\* Private::Viewport::drawListView
drawListView(hs, sp, fvr, off) ==
    IF fvr >= 0 THEN drawLoop(hs, sp, fvr, off + sp) ELSE <<>>

RECURSIVE rowAtLoop(_, _, _, _, _, _)
\* The while loop of rowAt; py is p.y(), p.x() lies in the content band.
rowAtLoop(hs, sp, row, y, py, g) ==
    IF row >= 0 /\ row < rowCount(hs)
    THEN LET height == heightForWidth(hs, row, g)
         IN  IF contains(y, height, py)
             THEN row
             ELSE IF qAbs(y) + height + sp > qAbs(py)
                  THEN -1
                  ELSE IF py < y
                       THEN rowAtLoop(hs, sp, row - 1, y - (height + sp), py, g)
                       ELSE rowAtLoop(hs, sp, row + 1, y + (height + sp), py, g)
    ELSE -1

\* AbstractListView::rowAt( p ) for a point on the left edge of the rows,
\* p.x() = spacing: p.x() > x + width holds exactly when rowWidth < 0.
rowAt(hs, sp, fvr, off, py, g) ==
    IF rowWidth < 0 THEN -1 ELSE rowAtLoop(hs, sp, fvr, off, py, g)

RECURSIVE calcHeightLoop(_, _, _, _)
\* The for loop of calcScrolledAreaSize.
calcHeightLoop(hs, sp, i, height) ==
    IF i < rowCount(hs)
    THEN calcHeightLoop(hs, sp, i + 1, height + hs[i + 1] + sp)
    ELSE height

\* calcScrolledAreaSize with the sum started at 0 instead of spacing.
calcScrolledAreaSize_FromZero(hs, sp) == calcHeightLoop(hs, sp, 0, 0)

\* AbstractListViewPrivate::calcScrolledAreaSize().height()
calcScrolledAreaSize(hs, sp) == calcHeightLoop(hs, sp, 0, sp)

\* AbstractListView::recalculateSize: its call of setScrolledAreaSize.
recalculateSize(hs, sp) == <<calcScrolledAreaSize(hs, sp)>>

RECURSIVE updateLoop(_, _, _, _, _, _, _)
\* The for loop of updateIfNeeded: TRUE when viewport->update() is called.
updateLoop(hs, sp, fvr, off, i, lastRow, g) ==
    IF i <= lastRow
    THEN IF ~visualRect(hs, sp, fvr, off, i, g).null
         THEN TRUE
         ELSE updateLoop(hs, sp, fvr, off, i + 1, lastRow, g)
    ELSE FALSE

\* AbstractListViewPrivate::updateIfNeeded( firstRow, lastRow )
updateIfNeeded(hs, sp, fvr, off, firstRow, lastRow, g) ==
    updateLoop(hs, sp, fvr, off, firstRow, lastRow, g)

\* ------------------------------------------------------------------ scrolling

RECURSIVE maxOffsetLoop(_, _, _, _)
\* The while loop of maxOffset: the extent accumulated from the last row back.
maxOffsetLoop(hs, sp, row, y) ==
    IF y < WinHeight /\ row >= 0
    THEN maxOffsetLoop(hs, sp, row - 1, y + hs[row + 1] + sp)
    ELSE y

\* AbstractListViewPrivate::maxOffset()
maxOffset(hs, sp) ==
    LET y == maxOffsetLoop(hs, sp, rowCount(hs) - 1, 0)
    IN  IF y > WinHeight THEN WinHeight - y - 1 ELSE 0

RECURSIVE calculateScrollUp(_, _, _, _, _, _)
\* calculateScroll, tmpRow > row: while( tmpRow >= row ).
calculateScrollUp(hs, sp, tmpRow, row, delta, g) ==
    IF tmpRow >= row
    THEN calculateScrollUp(hs, sp, tmpRow - 1, row,
                           delta + sp + heightForWidth(hs, tmpRow, g), g)
    ELSE delta

RECURSIVE calculateScrollDown(_, _, _, _, _, _)
\* calculateScroll, tmpRow < row: while( tmpRow < row ).
calculateScrollDown(hs, sp, tmpRow, row, delta, g) ==
    IF tmpRow < row
    THEN calculateScrollDown(hs, sp, tmpRow + 1, row,
                             delta - (heightForWidth(hs, tmpRow, g) + sp), g)
    ELSE delta

\* AbstractListViewPrivate::calculateScroll( row, expectedOffset )
calculateScroll(hs, sp, fvr, off, row, expectedOffset, g) ==
    LET delta == -off + expectedOffset
    IN  IF fvr > row
        THEN calculateScrollUp(hs, sp, fvr - 1, row, delta, g)
        ELSE IF fvr < row
             THEN calculateScrollDown(hs, sp, fvr, row, delta, g)
             ELSE delta

RECURSIVE canScrollDownLoop(_, _, _, _)
\* The while loop of canScrollDown: the row it stops at.
canScrollDownLoop(hs, sp, row, y) ==
    IF y < WinHeight /\ row < rowCount(hs)
    THEN canScrollDownLoop(hs, sp, row + 1, y + hs[row + 1] + sp)
    ELSE row

\* AbstractListViewPrivate::canScrollDown( row )
canScrollDown(hs, sp, row) ==
    IF row = -1
    THEN FALSE
    ELSE canScrollDownLoop(hs, sp, row, sp) < rowCount(hs)

RECURSIVE normalizeUp(_, _, _, _, _)
\* normalizeOffset, offset > 0 and row > 0: while( offset > 0 ).
normalizeUp(hs, sp, row, off, g) ==
    IF off > 0
    THEN LET delta == heightForWidth(hs, row, g) + sp
             o2 == off - delta
         IN  IF row # 0
             THEN normalizeUp(hs, sp, row - 1, o2, g)
             ELSE [row |-> row, offset |-> 0, clamp |-> "top"]
    ELSE [row |-> row, offset |-> off, clamp |-> "none"]

RECURSIVE normalizeDown(_, _, _, _, _, _)
\* normalizeOffset, offset < 0 and canScrollDown:
\* while( qAbs( offset ) > height + spacing ).
normalizeDown(hs, sp, row, off, height, g) ==
    IF qAbs(off) > height + sp
    THEN LET o2 == off + height + sp
         IN  IF row < rowCount(hs) - 1
             THEN normalizeDown(hs, sp, row + 1, o2,
                                heightForWidth(hs, row + 1, g), g)
             ELSE [row |-> row, offset |-> 0, clamp |-> "end"]
    ELSE [row |-> row, offset |-> off, clamp |-> "none"]

\* AbstractListViewPrivate::normalizeOffset( row, offset ): the new row and
\* offset, and which of its clamps acted ("top": offset = 0 at row 0,
\* "end": offset = 0 at the last row, "max": offset = maxOffset()).
normalizeOffset(hs, sp, row, off, g) ==
    IF off > 0
    THEN IF row > 0
         THEN normalizeUp(hs, sp, row, off, g)
         ELSE [row |-> row, offset |-> 0, clamp |-> "top"]
    ELSE IF off < 0
         THEN IF canScrollDown(hs, sp, row)
              THEN normalizeDown(hs, sp, row, off, heightForWidth(hs, row, g), g)
              ELSE LET max == maxOffset(hs, sp)
                   IN  IF off < max
                       THEN [row |-> row, offset |-> max, clamp |-> "max"]
                       ELSE [row |-> row, offset |-> off, clamp |-> "none"]
         ELSE [row |-> row, offset |-> off, clamp |-> "none"]

\* scrollContentsBy without the call of normalizeOffset.
scrollContentsBy_NoNormalize(hs, sp, row, off, dy, g) ==
    [row |-> row, offset |-> off + dy, clamp |-> "none"]

\* AbstractListView::scrollContentsBy( dx, dy )
scrollContentsBy(hs, sp, row, off, dy, g) ==
    normalizeOffset(hs, sp, row, off + dy, g)

\* The expected offset scrollTo hands to calculateScroll for a hint.
expectedOffset(hs, sp, row, hint, g) ==
    CASE hint = "EnsureVisible" -> -1
      [] hint = "PositionAtTop" -> -1
      [] hint = "PositionAtBottom" ->
            WinHeight - heightForWidth(hs, row, g) - sp - 1
      [] hint = "PositionAtCenter" ->
            cdiv(WinHeight, 2) - cdiv(heightForWidth(hs, row, g), 2)

\* AbstractListView::scrollTo( row, hint ): whether a scroll is requested
\* and the delta added to topLeftPointShownArea().y().
scrollTo(hs, sp, fvr, off, row, hint, g) ==
    IF row >= 0 /\ row < rowCount(hs)
    THEN IF hint = "EnsureVisible" /\ ~visualRect(hs, sp, fvr, off, row, g).null
         THEN [scroll |-> FALSE, delta |-> 0]
         ELSE [scroll |-> TRUE,
               delta |-> calculateScroll(hs, sp, fvr, off, row,
                                         expectedOffset(hs, sp, row, hint, g), g)]
    ELSE [scroll |-> FALSE, delta |-> 0]

\* AbstractScrollArea::setTopLeftPointShownArea: the surface moves by the
\* requested delta and reports it back through scrollContentsBy.
setTopLeftPointShownArea(hs, sp, fvr, off, delta, g) ==
    scrollContentsBy(hs, sp, fvr, off, delta, g)

\* ------------------------------------------------------------------ calls of heightForWidth

\* visualRect( row ) calls heightForWidth: it does for every row >=
\* firstVisibleRow, before any other test.
visualRectAsks(fvr, row) == row >= fvr

\* drawListView calls heightForWidth: once for every row it hands to drawRow.
drawListViewAsks(hs, sp, fvr, off) == drawListView(hs, sp, fvr, off) # <<>>

\* rowAt( p ), p.x() = spacing, calls heightForWidth: its loop is entered.
rowAtAsks(hs, fvr) == rowWidth >= 0 /\ fvr >= 0 /\ fvr < rowCount(hs)

\* calcScrolledAreaSize calls heightForWidth: once for every row.
calcScrolledAreaSizeAsks(hs) == rowCount(hs) > 0

\* updateIfNeeded( firstRow, lastRow ) calls heightForWidth: through the
\* first visualRect( i ) with i >= firstVisibleRow, all before it being null.
updateIfNeededAsks(fvr, firstRow, lastRow) ==
    \E i \in firstRow..lastRow : visualRectAsks(fvr, i)

\* calculateScroll( row, expectedOffset ) calls heightForWidth: either loop
\* runs at least once unless firstVisibleRow = row.
calculateScrollAsks(fvr, row) == fvr # row

\* normalizeOffset( row, offset ) calls heightForWidth: in the walk up, in
\* the loop of canScrollDown, before the walk down, or in the loop of
\* maxOffset.
normalizeOffsetAsks(hs, sp, row, off) ==
    IF off > 0
    THEN row > 0
    ELSE IF off < 0
         THEN \/ (row # -1 /\ sp < WinHeight /\ row < rowCount(hs))
              \/ canScrollDown(hs, sp, row)
              \/ (~canScrollDown(hs, sp, row) /\ rowCount(hs) - 1 >= 0)
         ELSE FALSE

\* scrollTo( row, hint ) calls heightForWidth before it hands its delta to
\* the scroll area: in visualRect, for the expected offset, or in
\* calculateScroll.
scrollToAsks(hs, fvr, row, hint) ==
    /\ row >= 0 /\ row < rowCount(hs)
    /\ CASE hint = "EnsureVisible" ->
                visualRectAsks(fvr, row) \/ calculateScrollAsks(fvr, row)
          [] hint = "PositionAtTop" -> calculateScrollAsks(fvr, row)
          [] hint = "PositionAtBottom" -> TRUE
          [] hint = "PositionAtCenter" -> TRUE

\* ------------------------------------------------------------------ rows heightForWidth is asked for

RECURSIVE visualRectWalkRows(_, _, _, _, _, _, _)
\* The rows the while( tmpRow < row ) loop of visualRect asks for.
visualRectWalkRows(hs, sp, tmpRow, y, height, row, g) ==
    IF tmpRow < row
    THEN LET y2 == y + height + sp
         IN  IF y2 > WinHeight
             THEN {}
             ELSE {tmpRow + 1}
                    \cup visualRectWalkRows(hs, sp, tmpRow + 1, y2,
                              heightForWidth(hs, tmpRow + 1, g), row, g)
    ELSE {}

\* The rows visualRect( row ) asks for: firstVisibleRow, then every row the
\* walk steps onto.
visualRectRows(hs, sp, fvr, off, row, g) ==
    IF row >= fvr
    THEN {fvr} \cup visualRectWalkRows(hs, sp, fvr, off,
                                       heightForWidth(hs, fvr, g), row, g)
    ELSE {}

\* The rows drawListView asks for: the rows it hands to drawRow.
drawListViewRows(hs, sp, fvr, off) ==
    LET drawn == drawListView(hs, sp, fvr, off)
    IN  {drawn[i].row : i \in 1..Len(drawn)}

RECURSIVE rowAtLoopRows(_, _, _, _, _, _)
\* The rows the while loop of rowAt asks for.
rowAtLoopRows(hs, sp, row, y, py, g) ==
    IF row >= 0 /\ row < rowCount(hs)
    THEN LET height == heightForWidth(hs, row, g)
         IN  {row} \cup
             IF contains(y, height, py) \/ qAbs(y) + height + sp > qAbs(py)
             THEN {}
             ELSE IF py < y
                  THEN rowAtLoopRows(hs, sp, row - 1, y - (height + sp), py, g)
                  ELSE rowAtLoopRows(hs, sp, row + 1, y + (height + sp), py, g)
    ELSE {}

\* The rows rowAt( p ), p.x() = spacing, asks for.
rowAtRows(hs, sp, fvr, off, py, g) ==
    IF rowWidth < 0 THEN {} ELSE rowAtLoopRows(hs, sp, fvr, off, py, g)

\* The rows calcScrolledAreaSize asks for: i = 0 .. rowCount() - 1.
calcScrolledAreaSizeRows(hs) == 0..rowCount(hs) - 1

RECURSIVE updateLoopRows(_, _, _, _, _, _, _)
\* The rows the visualRect calls of updateIfNeeded ask for, up to the first
\* call that returns a rectangle that is not null.
updateLoopRows(hs, sp, fvr, off, i, lastRow, g) ==
    IF i <= lastRow
    THEN visualRectRows(hs, sp, fvr, off, i, g) \cup
         IF ~visualRect(hs, sp, fvr, off, i, g).null
         THEN {}
         ELSE updateLoopRows(hs, sp, fvr, off, i + 1, lastRow, g)
    ELSE {}

\* The rows updateIfNeeded( firstRow, lastRow ) asks for.
updateIfNeededRows(hs, sp, fvr, off, firstRow, lastRow, g) ==
    updateLoopRows(hs, sp, fvr, off, firstRow, lastRow, g)

RECURSIVE maxOffsetLoopRows(_, _, _, _)
\* The rows the while loop of maxOffset asks for.
maxOffsetLoopRows(hs, sp, row, y) ==
    IF y < WinHeight /\ row >= 0
    THEN {row} \cup maxOffsetLoopRows(hs, sp, row - 1, y + hs[row + 1] + sp)
    ELSE {}

\* The rows maxOffset() asks for, from the last row back.
maxOffsetRows(hs, sp) == maxOffsetLoopRows(hs, sp, rowCount(hs) - 1, 0)

\* The rows canScrollDown( row ) asks for: row up to where its loop stops.
canScrollDownRows(hs, sp, row) ==
    IF row = -1
    THEN {}
    ELSE row..canScrollDownLoop(hs, sp, row, sp) - 1

\* The rows calculateScroll( row, expectedOffset ) asks for: row up to
\* firstVisibleRow - 1 in its first loop, firstVisibleRow up to row - 1 in
\* its second.
calculateScrollRows(fvr, row) ==
    IF fvr > row THEN row..fvr - 1 ELSE fvr..row - 1

RECURSIVE normalizeUpRows(_, _, _, _, _)
\* The rows the while( offset > 0 ) loop of normalizeOffset asks for.
normalizeUpRows(hs, sp, row, off, g) ==
    IF off > 0
    THEN {row} \cup
         IF row # 0
         THEN normalizeUpRows(hs, sp, row - 1,
                              off - (heightForWidth(hs, row, g) + sp), g)
         ELSE {}
    ELSE {}

RECURSIVE normalizeDownRows(_, _, _, _, _, _)
\* The rows the while( qAbs( offset ) > height + spacing ) loop of
\* normalizeOffset asks for.
normalizeDownRows(hs, sp, row, off, height, g) ==
    IF qAbs(off) > height + sp /\ row < rowCount(hs) - 1
    THEN {row + 1} \cup
         normalizeDownRows(hs, sp, row + 1, off + height + sp,
                           heightForWidth(hs, row + 1, g), g)
    ELSE {}

\* The rows normalizeOffset( row, offset ) asks for, canScrollDown and
\* maxOffset included.
normalizeOffsetRows(hs, sp, row, off, g) ==
    IF off > 0
    THEN IF row > 0 THEN normalizeUpRows(hs, sp, row, off, g) ELSE {}
    ELSE IF off < 0
         THEN canScrollDownRows(hs, sp, row) \cup
              IF canScrollDown(hs, sp, row)
              THEN {row} \cup normalizeDownRows(hs, sp, row, off,
                                    heightForWidth(hs, row, g), g)
              ELSE maxOffsetRows(hs, sp)
         ELSE {}

\* The rows scrollTo( row, hint ) asks for before it hands its delta to the
\* scroll area.
scrollToRows(hs, sp, fvr, off, row, hint, g) ==
    IF row >= 0 /\ row < rowCount(hs)
    THEN CASE hint = "EnsureVisible" ->
                visualRectRows(hs, sp, fvr, off, row, g) \cup
                IF visualRect(hs, sp, fvr, off, row, g).null
                THEN calculateScrollRows(fvr, row)
                ELSE {}
           [] hint = "PositionAtTop" -> calculateScrollRows(fvr, row)
           [] hint \in {"PositionAtBottom", "PositionAtCenter"} ->
                {row} \cup calculateScrollRows(fvr, row)
    ELSE {}

\* ------------------------------------------------------------------ the model's rows

\* All row sequences of at most n rows.
RowSeqs(n) == UNION {[1..k -> Heights] : k \in 0..n}

\* ListModel: rows first..last (inclusive) are removed.
removeRows(hs, first, lastRow) ==
    SubSeq(hs, 1, first) \o SubSeq(hs, lastRow + 2, Len(hs))

\* ListModel: k rows of height h are inserted so that they become rows
\* first..first + k - 1.
insertRows(hs, first, k, h) ==
    SubSeq(hs, 1, first) \o [i \in 1..k |-> h] \o SubSeq(hs, first + 1, Len(hs))

\* ListModel: rows sourceStart..sourceEnd are moved so that they become rows
\* destination..destination + sourceEnd - sourceStart.
moveRows(hs, sourceStart, sourceEnd, destination) ==
    LET block == SubSeq(hs, sourceStart + 1, sourceEnd + 1)
        rest == removeRows(hs, sourceStart, sourceEnd)
    IN  SubSeq(rest, 1, destination) \o block
            \o SubSeq(rest, destination + 1, Len(rest))

\* ListModel: the content of rows first..last changes, their height becomes h.
changeRows(hs, first, lastRow, h) ==
    [i \in 1..Len(hs) |-> IF i - 1 >= first /\ i - 1 <= lastRow THEN h ELSE hs[i]]

\* ------------------------------------------------------------------ slots

\* AbstractListView::modelReset: the new firstVisibleRow and offset.
modelReset == [row |-> -1, offset |-> 0]

\* AbstractListView::rowsInserted: the new firstVisibleRow.
rowsInserted(fvr) == IF fvr = -1 THEN 0 ELSE fvr

\* rowsRemoved with the anchor left on the first removed row instead of the
\* row before it.
rowsRemoved_KeepsFirst(fvr, off, first, lastRow, count) ==
    IF fvr >= first /\ fvr <= lastRow
    THEN IF count # 0
         THEN [row |-> IF first - 1 >= 0 THEN first ELSE lastRow + 1,
               offset |-> 0]
         ELSE [row |-> -1, offset |-> 0]
    ELSE [row |-> fvr, offset |-> off]

\* AbstractListView::rowsRemoved( first, last ): the new firstVisibleRow and
\* offset; count is d->model->rowCount() when the slot runs.
rowsRemoved(fvr, off, first, lastRow, count) ==
    IF fvr >= first /\ fvr <= lastRow
    THEN IF count # 0
         THEN [row |-> IF first - 1 >= 0 THEN first - 1 ELSE lastRow + 1,
               offset |-> 0]
         ELSE [row |-> -1, offset |-> 0]
    ELSE [row |-> fvr, offset |-> off]

\* rowsMoved with the test of the destination range left out.
rowsMoved_SourceOnly(fvr, off, sourceStart, sourceEnd, destinationRow) ==
    IF fvr >= sourceStart /\ fvr <= sourceEnd
    THEN 0
    ELSE off

\* AbstractListView::rowsMoved( sourceStart, sourceEnd, destinationRow ):
\* the new offset.
rowsMoved(fvr, off, sourceStart, sourceEnd, destinationRow) ==
    IF (fvr >= sourceStart /\ fvr <= sourceEnd)
         \/ (fvr >= destinationRow
               /\ fvr <= destinationRow + sourceEnd - sourceStart)
    THEN 0
    ELSE off

\* ------------------------------------------------------------------ history

\* No call of setScrolledAreaSize.
NoArea == <<>>

\* What the last operation was: its name and arguments, whether the anchor
\* lay in the range it named (hit), which clamp of normalizeOffset acted,
\* whether scrollTo requested a scroll, whether viewport->update() was called,
\* and the heights given to setScrolledAreaSize, in order (NoArea: no call).
Last(op, a, b, c, hint, hit, clamp, scroll, updated, area) ==
    [op |-> op, a |-> a, b |-> b, c |-> c, hint |-> hint, hit |-> hit,
     clamp |-> clamp, scroll |-> scroll, updated |-> updated, area |-> area]

\* ------------------------------------------------------------------ behaviour

\* The view after construction: no model, AbstractListViewPrivate's
\* constructor sets firstVisibleRow( -1 ) and offset( 0 ).
Init ==
    /\ attached = FALSE
    /\ heights = <<>>
    /\ spacing \in Spacings
    /\ width \in Widths
    /\ firstVisibleRow = -1
    /\ offset = 0
    /\ last = Last("init", 0, 0, 0, "", FALSE, "none", FALSE, FALSE, NoArea)

\* The view after construction in a viewport no wider than twice the spacing.
InitNarrow ==
    /\ attached = FALSE
    /\ heights = <<>>
    /\ spacing \in Spacings
    /\ width \in NarrowWidths
    /\ width - 2 * spacing <= 0
    /\ firstVisibleRow = -1
    /\ offset = 0
    /\ last = Last("init", 0, 0, 0, "", FALSE, "none", FALSE, FALSE, NoArea)

\* setModel( m ): m holds any rows.
SetModel ==
    \E m \in RowSeqs(MaxNewRows) :
        /\ attached' = TRUE
        /\ heights' = m
        /\ last' = Last("setModel", 0, 0, 0, "", FALSE, "none", FALSE, FALSE, NoArea)
        /\ UNCHANGED <<spacing, width, firstVisibleRow, offset>>

\* The model is reset to any content and emits modelReset.
ModelReset ==
    /\ attached
    /\ \E m \in RowSeqs(MaxNewRows) :
        /\ heights' = m
        /\ firstVisibleRow' = modelReset.row
        /\ offset' = modelReset.offset
        /\ last' = Last("modelReset", 0, 0, 0, "", FALSE, "none", FALSE, TRUE,
                        recalculateSize(m, spacing))
        /\ UNCHANGED <<attached, spacing, width>>

\* Rows are inserted and the model emits rowsInserted( first, last ).
RowsInserted ==
    /\ attached
    /\ \E first \in 0..Len(heights), k \in 1..2, h \in Heights, g \in Undef :
        /\ Len(heights) + k <= MaxRows
        /\ LET hs == insertRows(heights, first, k, h)
               fvr == rowsInserted(firstVisibleRow)
           IN  /\ heights' = hs
               /\ firstVisibleRow' = fvr
               /\ last' = Last("rowsInserted", first, first + k - 1, 0, "",
                               firstVisibleRow >= first
                                   /\ firstVisibleRow <= first + k - 1,
                               "none", FALSE,
                               updateIfNeeded(hs, spacing, fvr, offset,
                                              first, first + k - 1, g),
                               recalculateSize(hs, spacing))
        /\ UNCHANGED <<attached, spacing, width, offset>>

\* Rows are removed and the model emits rowsRemoved( first, last ).
RowsRemoved ==
    /\ attached
    /\ \E first \in 0..Len(heights) - 1, g \in Undef :
        \E lastRow \in first..Len(heights) - 1 :
            LET hs == removeRows(heights, first, lastRow)
                st == rowsRemoved(firstVisibleRow, offset, first, lastRow,
                                  rowCount(hs))
            IN  /\ heights' = hs
                /\ firstVisibleRow' = st.row
                /\ offset' = st.offset
                 /\ last' = Last("rowsRemoved", first, lastRow, 0, "",
                                firstVisibleRow >= first
                                    /\ firstVisibleRow <= lastRow,
                                "none", FALSE,
                                updateIfNeeded(hs, spacing, st.row, st.offset,
                                               first, lastRow, g),
                                recalculateSize(hs, spacing))
                /\ UNCHANGED <<attached, spacing, width>>

\* Rows are moved and the model emits rowsMoved( sourceStart, sourceEnd,
\* destinationRow ).
RowsMoved ==
    /\ attached
    /\ \E sourceStart \in 0..Len(heights) - 1, g \in Undef :
        \E sourceEnd \in sourceStart..Len(heights) - 1 :
            \E dest \in 0..Len(heights) - (sourceEnd - sourceStart + 1) :
                /\ dest # sourceStart
                /\ LET hs == moveRows(heights, sourceStart, sourceEnd, dest)
                       off == rowsMoved(firstVisibleRow, offset,
                                        sourceStart, sourceEnd, dest)
                       destEnd == dest + sourceEnd - sourceStart
                   IN  /\ heights' = hs
                       /\ offset' = off
                       /\ last' = Last("rowsMoved", sourceStart, sourceEnd, dest, "",
                                       (firstVisibleRow >= sourceStart
                                           /\ firstVisibleRow <= sourceEnd)
                                         \/ (firstVisibleRow >= dest
                                           /\ firstVisibleRow <= destEnd),
                                       "none", FALSE,
                                       IF updateIfNeeded(hs, spacing, firstVisibleRow,
                                              off, sourceStart, sourceEnd, g)
                                       THEN TRUE
                                       ELSE updateIfNeeded(hs, spacing,
                                              firstVisibleRow, off, dest, destEnd, g),
                                       NoArea)
                /\ UNCHANGED <<attached, spacing, width, firstVisibleRow>>

\* The content of rows changes and the model emits dataChanged( first, last ).
DataChanged ==
    /\ attached
    /\ \E first \in 0..Len(heights) - 1, h \in Heights, g \in Undef :
        \E lastRow \in first..Len(heights) - 1 :
            LET hs == changeRows(heights, first, lastRow, h)
            IN  /\ heights' = hs
                /\ last' = Last("dataChanged", first, lastRow, 0, "",
                                firstVisibleRow >= first
                                    /\ firstVisibleRow <= lastRow,
                                "none", FALSE,
                                updateIfNeeded(hs, spacing, firstVisibleRow,
                                               offset, first, lastRow, g),
                                NoArea)
                /\ UNCHANGED <<attached, spacing, width, firstVisibleRow, offset>>

\* The scroll area reports a pan: scrollContentsBy( dx, dy ).
ScrollContentsBy ==
    /\ attached
    /\ \E dy \in Deltas, g \in Undef :
        LET st == scrollContentsBy(heights, spacing, firstVisibleRow, offset, dy, g)
        IN  /\ firstVisibleRow' = st.row
            /\ offset' = st.offset
            /\ last' = Last("scrollContentsBy", dy, 0, 0, "", FALSE, st.clamp,
                            FALSE, FALSE, NoArea)
            /\ UNCHANGED <<attached, heights, spacing, width>>

\* scrollTo( row, hint ) for a row of the model, the index before the first
\* row or the index after the last row, followed by the pan the scroll area
\* reports for the requested delta.
ScrollTo ==
    /\ attached
    /\ \E row \in -1..rowCount(heights), hint \in Hints, g \in Undef :
        LET req == scrollTo(heights, spacing, firstVisibleRow, offset, row, hint, g)
            st == IF req.scroll
                  THEN setTopLeftPointShownArea(heights, spacing, firstVisibleRow,
                                                offset, req.delta, g)
                  ELSE [row |-> firstVisibleRow, offset |-> offset, clamp |-> "none"]
        IN  /\ firstVisibleRow' = st.row
            /\ offset' = st.offset
            /\ last' = Last("scrollTo", row, 0, 0, hint, FALSE, st.clamp,
                            req.scroll, FALSE, NoArea)
            /\ UNCHANGED <<attached, heights, spacing, width>>

Next ==
    \/ SetModel
    \/ ModelReset
    \/ RowsInserted
    \/ RowsRemoved
    \/ RowsMoved
    \/ DataChanged
    \/ ScrollContentsBy
    \/ ScrollTo

Spec == Init /\ [][Next]_vars

\* The same view in a viewport no wider than twice the spacing.
SpecNarrow == InitNarrow /\ [][Next]_vars

\* ------------------------------------------------------------------ claims

\* firstVisibleRow is -1 or a row of the model.
AnchorValid ==
    firstVisibleRow = -1
        \/ (firstVisibleRow >= 0 /\ firstVisibleRow < rowCount(heights))

\* A model is attached and the anchor is as the data model describes it:
\* -1 for an empty model, a row of the model otherwise.
StateOk ==
    /\ attached
    /\ IF rowCount(heights) = 0
       THEN firstVisibleRow = -1
       ELSE firstVisibleRow >= 0 /\ firstVisibleRow < rowCount(heights)

\* The operations C1 names: pans, scrollTo and the model's notifications.
ViewOps == {"scrollContentsBy", "scrollTo", "modelReset", "rowsInserted",
            "rowsRemoved", "rowsMoved", "dataChanged"}

\* C1: a pan, a scrollTo or a model notification (reset, inserted, removed,
\* moved, dataChanged) that starts with firstVisibleRow either -1 or a row of
\* the model leaves firstVisibleRow either -1 or a row of the model as it is
\* after the notification; in particular rowsRemoved never leaves
\* firstVisibleRow >= rowCount().
C1_AnchorStaysValid ==
    [][(attached /\ AnchorValid /\ last'.op \in ViewOps) => AnchorValid']_vars

\* C2: in every state with a model attached, firstVisibleRow = -1 if and
\* only if the model has no rows.
C2_AnchorNoneIffEmpty ==
    attached => (firstVisibleRow = -1 <=> rowCount(heights) = 0)

\* C3: after rowsRemoved( first, last ) with the anchor inside [first, last]:
\* first > 0 gives firstVisibleRow = first - 1, first = 0 with rows remaining
\* gives firstVisibleRow = last + 1, no rows remaining gives -1; offset is 0
\* in all three cases.
C3_RemovedReanchors ==
    (last.op = "rowsRemoved" /\ last.hit) =>
        /\ offset = 0
        /\ firstVisibleRow =
              IF last.a > 0 THEN last.a - 1
              ELSE IF rowCount(heights) > 0 THEN last.b + 1
              ELSE -1

\* C3 witness: rows 0..last were removed from under the anchor, rows remain,
\* and the anchor is last + 1.
C3_Witness ==
    /\ last.op = "rowsRemoved"
    /\ last.hit
    /\ last.a = 0
    /\ rowCount(heights) > 0
    /\ firstVisibleRow = last.b + 1
    /\ offset = 0

\* The rows of the model.
Rows == 0..rowCount(heights) - 1

\* C4: after scrollTo( R, PositionAtTop ) on a valid row R, its delta applied
\* as a pan and normalized without any clamp of normalizeOffset acting, the
\* top of visualRect( R ) is the top of the window plus spacing.
C4_PositionAtTop ==
    [][(StateOk /\ last'.op = "scrollTo" /\ last'.hint = "PositionAtTop"
            /\ last'.scroll /\ last'.clamp = "none")
        => \A g \in Undef :
              LET r == visualRect(heights', spacing', firstVisibleRow', offset',
                                  last'.a, g)
              IN  ~r.null /\ r.top = spacing']_vars

\* Row R lies in the window with its full height, by visualRect.
FullyWithin(R, g) ==
    LET r == visualRect(heights, spacing, firstVisibleRow, offset, R, g)
    IN  ~r.null /\ r.bottom - r.top + 1 = heightForWidth(heights, R, g)

\* C5: after scrollTo( R, EnsureVisible ) on a valid row R, delta applied and
\* normalized, visualRect( R ) is not null; and when R lay fully within the
\* window before the call, firstVisibleRow and offset are unchanged.
C5_EnsureVisible ==
    [][(StateOk /\ last'.op = "scrollTo" /\ last'.hint = "EnsureVisible"
            /\ last'.a \in Rows)
        => \A g \in Undef :
              /\ ~visualRect(heights', spacing', firstVisibleRow', offset',
                             last'.a, g).null
              /\ FullyWithin(last'.a, g)
                    => (firstVisibleRow' = firstVisibleRow /\ offset' = offset)]_vars

\* C6: for every row r whose visualRect is not null, rowAt returns r for
\* every point strictly inside visualRect( r ).
C6_RowAtFindsRow ==
    StateOk =>
        \A r \in Rows, g \in Undef :
            LET vr == visualRect(heights, spacing, firstVisibleRow, offset, r, g)
            IN  ~vr.null =>
                    \A py \in (vr.top + 1)..(vr.bottom - 1) :
                        rowAt(heights, spacing, firstVisibleRow, offset, py, g) = r

\* The rectangle drawListView hands to drawRow for row r, clipped to the
\* window; null when the row is not drawn.
DrawnRect(r) ==
    LET drawn == drawListView(heights, spacing, firstVisibleRow, offset)
        at == {i \in 1..Len(drawn) : drawn[i].row = r}
    IN  IF at = {}
        THEN NullRect
        ELSE LET d == drawn[CHOOSE i \in at : TRUE]
             IN  intersected(d.y, d.height)

\* C7: visualRect( row ) is the rectangle the renderer draws the row in,
\* clipped to the window: its top is offset + spacing + the sum of
\* height + spacing over rows firstVisibleRow..row - 1.
C7_VisualRectIsDrawnRect ==
    StateOk =>
        \A r \in Rows, g \in Undef :
            visualRect(heights, spacing, firstVisibleRow, offset, r, g)
                = DrawnRect(r)

RECURSIVE SumHeights(_)
\* The sum of the heights of the rows hs.
SumHeights(hs) == IF hs = <<>> THEN 0 ELSE Head(hs) + SumHeights(Tail(hs))

\* C8: the height given to setScrolledAreaSize by a structural change
\* (modelReset, rowsInserted, rowsRemoved) is spacing plus the sum over all
\* rows of height + spacing; for an empty model it is spacing.
C8_TotalExtent ==
    last.op \in {"modelReset", "rowsInserted", "rowsRemoved"} =>
        /\ last.area = <<spacing + SumHeights(heights) + Len(heights) * spacing>>
        /\ heights = <<>> => last.area = <<spacing>>

\* C8 witness: three rows of heights 3, 2, 3 with spacing 1 after an insert,
\* total extent 1 + 4 + 3 + 4 = 12.
C8_Witness ==
    /\ last.op = "rowsInserted"
    /\ heights = <<3, 2, 3>>
    /\ spacing = 1
    /\ last.area = <<12>>

\* C9: in a state produced by a pan, scrollContentsBy with dy = 0 leaves
\* firstVisibleRow and offset unchanged.
C9_NormalizeIdempotent ==
    (attached /\ last.op = "scrollContentsBy") =>
        \A g \in Undef :
            LET st == scrollContentsBy(heights, spacing, firstVisibleRow,
                                       offset, 0, g)
            IN  st.row = firstVisibleRow /\ st.offset = offset

\* Row indices that are not rows of the model.
OutOfRange == (-2..MaxRows + 1) \ Rows

\* C10: scrollTo on a row index outside [0, rowCount()) requests no scroll
\* and leaves firstVisibleRow and offset unchanged, and visualRect of such an
\* index is the null rectangle.
C10_OutOfRangeIgnored ==
    [][/\ (last'.op = "scrollTo" /\ last'.a \notin Rows)
            => (~last'.scroll /\ firstVisibleRow' = firstVisibleRow
                    /\ offset' = offset)
       /\ StateOk' =>
            \A row \in OutOfRange', g \in Undef :
                visualRect(heights', spacing', firstVisibleRow', offset',
                           row, g).null]_vars

\* The operation that produced the next state called heightForWidth.
OperationAsks ==
    CASE last'.op = "modelReset" -> calcScrolledAreaSizeAsks(heights')
      [] last'.op \in {"rowsInserted", "rowsRemoved"} ->
            calcScrolledAreaSizeAsks(heights')
                \/ updateIfNeededAsks(firstVisibleRow', last'.a, last'.b)
      [] last'.op = "rowsMoved" ->
            updateIfNeededAsks(firstVisibleRow', last'.a, last'.b)
                \/ updateIfNeededAsks(firstVisibleRow', last'.c,
                                      last'.c + last'.b - last'.a)
      [] last'.op = "dataChanged" ->
            updateIfNeededAsks(firstVisibleRow', last'.a, last'.b)
      [] last'.op = "scrollContentsBy" ->
            normalizeOffsetAsks(heights, spacing, firstVisibleRow,
                                offset + last'.a)
      [] last'.op = "scrollTo" ->
            scrollToAsks(heights, firstVisibleRow, last'.a, last'.hint)
                \/ (last'.scroll /\ \E g \in Undef :
                        normalizeOffsetAsks(heights, spacing, firstVisibleRow,
                            offset + scrollTo(heights, spacing, firstVisibleRow,
                                              offset, last'.a, last'.hint,
                                              g).delta))
      [] OTHER -> FALSE

\* A repaint, some visualRect( row ), some rowAt( p ) or the computation of
\* the total extent calls heightForWidth in this state.
QueriesAsk ==
    \/ drawListViewAsks(heights, spacing, firstVisibleRow, offset)
    \/ \E row \in -1..MaxRows : visualRectAsks(firstVisibleRow, row)
    \/ rowAtAsks(heights, firstVisibleRow)
    \/ calcScrolledAreaSizeAsks(heights)

\* Nothing is drawn, every visualRect is null and rowAt finds no row.
QueriesEmpty ==
    /\ drawListView(heights, spacing, firstVisibleRow, offset) = <<>>
    /\ \A row \in -1..MaxRows, g \in Undef :
            visualRect(heights, spacing, firstVisibleRow, offset, row, g).null
    /\ \A py \in 0..WinHeight - 1, g \in Undef :
            rowAt(heights, spacing, firstVisibleRow, offset, py, g) = -1

\* C11: when the usable width, width - 2 * spacing, is zero or negative, no
\* operation (repaint, visualRect, rowAt, the normalization of a pan,
\* scrollTo, the computation of the total extent) calls heightForWidth, and
\* the queries yield empty results.
C11_NarrowWindowAsksNothing ==
    [][(attached' /\ rowWidth <= 0)
        => (~OperationAsks /\ ~QueriesAsk' /\ QueriesEmpty')]_vars

\* C12: after modelReset, and after setModel with a new model, whatever the
\* state before, firstVisibleRow is -1 and offset is 0.
C12_ResetClearsState ==
    last.op \in {"modelReset", "setModel"} =>
        (firstVisibleRow = -1 /\ offset = 0)

RECURSIVE SumRows(_, _, _, _)
\* The sum of height + spacing over rows from..to of the model.
SumRows(hs, sp, from, to) ==
    IF from > to THEN 0
    ELSE hs[from + 1] + sp + SumRows(hs, sp, from + 1, to)

\* The absolute scroll position: the sum of height + spacing over the rows
\* before the anchor, minus offset.
ScrollPosition(hs, sp, row, off) == SumRows(hs, sp, 0, row - 1) - off

\* C13: a pan by dy on which no clamp of normalizeOffset acts changes the
\* absolute scroll position by exactly -dy, in either direction and whatever
\* the heights of the rows the anchor moves over.
C13_PanMovesByDy ==
    [][(StateOk /\ last'.op = "scrollContentsBy" /\ last'.clamp = "none")
        => ScrollPosition(heights', spacing', firstVisibleRow', offset')
              = ScrollPosition(heights, spacing, firstVisibleRow, offset)
                    - last'.a]_vars

\* The position scrollTo aims the top edge of row R at, for the hints
\* PositionAtBottom and PositionAtCenter.
TargetPosition(hs, sp, R, hint) ==
    IF hint = "PositionAtBottom"
    THEN WinHeight - hs[R + 1] - sp - 1
    ELSE cdiv(WinHeight, 2) - cdiv(hs[R + 1], 2)

\* C14: after scrollTo( R, PositionAtBottom ) or scrollTo( R,
\* PositionAtCenter ) on a valid row R, its delta applied as a pan and
\* normalized without any clamp acting, the top edge of R (offset plus the
\* sum of height + spacing over rows firstVisibleRow..R - 1) is at the
\* position of the hint.
C14_BottomAndCenter ==
    [][(StateOk /\ last'.op = "scrollTo" /\ last'.a \in Rows
            /\ last'.hint \in {"PositionAtBottom", "PositionAtCenter"}
            /\ last'.scroll /\ last'.clamp = "none")
        => /\ firstVisibleRow' <= last'.a
           /\ offset' + SumRows(heights', spacing', firstVisibleRow', last'.a - 1)
                = TargetPosition(heights', spacing', last'.a, last'.hint)]_vars

\* The bottom edge of the last row as drawListView draws it.
DrawnBottomOfLastRow ==
    offset + spacing
        + SumRows(heights, spacing, firstVisibleRow, rowCount(heights) - 1)
        - spacing

\* C15: after any pan, when the total extent exceeds the window height, the
\* drawn bottom edge of the last row is never above WinHeight - 1; a walk
\* down that reaches the last row clamps offset to maxOffset().
C15_NoBlankBandAtBottom ==
    [][(StateOk /\ last'.op = "scrollContentsBy"
            /\ calcScrolledAreaSize(heights, spacing) > WinHeight)
        => /\ DrawnBottomOfLastRow' >= WinHeight - 1
           /\ last'.clamp = "end" => offset' = maxOffset(heights', spacing')]_vars

\* C16: after any pan on a model with rows, -offset is at most the height of
\* the anchor row plus spacing.
C16_OffsetWithinAnchorRow ==
    [][(StateOk /\ last'.op = "scrollContentsBy" /\ rowCount(heights) > 0)
        => -offset' <= heightForWidth(heights', firstVisibleRow', 0) + spacing']_vars

\* C17: after any pan, whatever dy, offset <= 0.
C17_OffsetNeverPositive ==
    last.op = "scrollContentsBy" => offset <= 0

\* C17 witness: a pan by the largest positive dy, which makes offset positive
\* whatever it was, moved the anchor to an earlier row of the model and left
\* offset negative.
C17_Witness ==
    /\ StateOk
    /\ last.op = "scrollContentsBy"
    /\ last.a = 7
    /\ last.clamp = "none"
    /\ rowCount(heights) = MaxRows
    /\ offset < 0

\* C18: rowsMoved( sourceStart, sourceEnd, destination ) never changes
\* firstVisibleRow; it sets offset to 0 when firstVisibleRow lies in
\* [sourceStart, sourceEnd] or in [destination, destination + sourceEnd -
\* sourceStart], and leaves offset unchanged otherwise.
C18_MovedFrame ==
    [][last'.op = "rowsMoved"
        => /\ firstVisibleRow' = firstVisibleRow
           /\ offset' =
                IF (firstVisibleRow >= last'.a /\ firstVisibleRow <= last'.b)
                     \/ (firstVisibleRow >= last'.c
                          /\ firstVisibleRow <= last'.c + last'.b - last'.a)
                THEN 0
                ELSE offset]_vars

\* C18 witness: rows were moved onto the anchor, which lies in the
\* destination range and not in the source range, and offset is 0.
C18_Witness ==
    /\ last.op = "rowsMoved"
    /\ firstVisibleRow >= last.c
    /\ firstVisibleRow <= last.c + last.b - last.a
    /\ ~(firstVisibleRow >= last.a /\ firstVisibleRow <= last.b)
    /\ offset = 0

\* C19: rowsInserted on a model that had rows before the insertion, and any
\* dataChanged, leave firstVisibleRow and offset unchanged, also when the
\* range is at or above the anchor; rowsInserted changes firstVisibleRow only
\* from -1 to 0, when the model had no rows.
C19_InsertedChangedFrame ==
    [][/\ (last'.op = "rowsInserted" /\ rowCount(heights) > 0)
            => (firstVisibleRow' = firstVisibleRow /\ offset' = offset)
       /\ last'.op = "dataChanged"
            => (firstVisibleRow' = firstVisibleRow /\ offset' = offset)
       /\ (last'.op = "rowsInserted" /\ firstVisibleRow' # firstVisibleRow)
            => (rowCount(heights) = 0 /\ firstVisibleRow = -1
                    /\ firstVisibleRow' = 0)]_vars

\* Some row of from..to is drawn inside the window by drawListView.
DrawsSomeOf(from, to) == \E r \in from..to : ~DrawnRect(r).null

\* C20: rowsInserted, rowsRemoved and dataChanged for [first, last] call
\* viewport->update() exactly when some row of [first, last] is among the
\* rows drawListView draws inside the window; rowsMoved calls it exactly when
\* the source range or the destination range holds such a row.
C20_RepaintIffDrawn ==
    /\ last.op \in {"rowsInserted", "rowsRemoved", "dataChanged"}
            => (last.updated <=> DrawsSomeOf(last.a, last.b))
    /\ last.op = "rowsMoved"
            => (last.updated <=> (DrawsSomeOf(last.a, last.b)
                    \/ DrawsSomeOf(last.c, last.c + last.b - last.a)))

\* The rows the operation that produced the next state asked heightForWidth
\* for, whatever the model yields for an index that is no row.
OperationRows ==
    UNION {
      CASE last'.op = "modelReset" -> calcScrolledAreaSizeRows(heights')
        [] last'.op \in {"rowsInserted", "rowsRemoved"} ->
              calcScrolledAreaSizeRows(heights')
                \cup updateIfNeededRows(heights', spacing', firstVisibleRow',
                                        offset', last'.a, last'.b, g)
        [] last'.op = "rowsMoved" ->
              updateIfNeededRows(heights', spacing', firstVisibleRow', offset',
                                 last'.a, last'.b, g)
                \cup IF updateIfNeeded(heights', spacing', firstVisibleRow',
                                       offset', last'.a, last'.b, g)
                     THEN {}
                     ELSE updateIfNeededRows(heights', spacing',
                              firstVisibleRow', offset', last'.c,
                              last'.c + last'.b - last'.a, g)
        [] last'.op = "dataChanged" ->
              updateIfNeededRows(heights', spacing', firstVisibleRow', offset',
                                 last'.a, last'.b, g)
        [] last'.op = "scrollContentsBy" ->
              normalizeOffsetRows(heights, spacing, firstVisibleRow,
                                  offset + last'.a, g)
        [] last'.op = "scrollTo" ->
              scrollToRows(heights, spacing, firstVisibleRow, offset,
                           last'.a, last'.hint, g)
                \cup IF last'.scroll
                     THEN normalizeOffsetRows(heights, spacing, firstVisibleRow,
                              offset + scrollTo(heights, spacing,
                                  firstVisibleRow, offset, last'.a,
                                  last'.hint, g).delta, g)
                     ELSE {}
        [] OTHER -> {}
      : g \in Undef }

\* The rows a repaint, visualRect of a row of the model and rowAt of a point
\* of the window ask heightForWidth for in this state.
QueryRows ==
    drawListViewRows(heights, spacing, firstVisibleRow, offset)
      \cup UNION {visualRectRows(heights, spacing, firstVisibleRow, offset,
                                 row, g) : row \in Rows, g \in Undef}
      \cup UNION {rowAtRows(heights, spacing, firstVisibleRow, offset, py, g)
                    : py \in 0..WinHeight - 1, g \in Undef}

\* C21: no operation (repaint, visualRect, rowAt, the normalization of a
\* pan, scrollTo, the repaint check of rowsInserted, rowsRemoved, rowsMoved
\* and dataChanged) asks heightForWidth for an index outside
\* [0, rowCount()), also when firstVisibleRow is -1 and when the rows of a
\* removed range no longer exist.
C21_OnlyRowsAreAsked ==
    [][attached' => (OperationRows \subseteq Rows' /\ QueryRows' \subseteq Rows')]_vars

====
